---- MODULE Spec2Model ----
(***************************************************************************)
(* CompanyInsightAI: the topic classifier (extract_topics) and the         *)
(* comparative analysis engine (comparative_analysis) of utils.py, two     *)
(* invocations of the engine interleaved statement by statement, and the   *)
(* pipeline of the two front doors (api.py, app.py) around the engine:     *)
(* fetch, classification, analysis, summary.                               *)
(*                                                                         *)
(* A Python str is a sequence of one-character strings, so that lower(),   *)
(* the substring test "in" and f-string concatenation are computed.  A     *)
(* Python dict with string keys is a function on the keys it holds; a key  *)
(* it does not hold is outside the function's domain.  Where Python        *)
(* iterates a set (list(all_topics), ', '.join(pos_unique)) the order is   *)
(* the interpreter's; those lists are modelled as the set they hold.       *)
(***************************************************************************)
EXTENDS Integers, Sequences, FiniteSets, TLC

VARIABLES
    articles,   \* the caller's list of article dicts handed to comparative_analysis
    before,     \* the list as it was when the latest call was entered
    results,    \* the values comparative_analysis has returned, oldest first
    text,       \* the argument of the latest extract_topics call
    doc,        \* the article dict that argument was built from ({} for a bare text)
    found,      \* what that call returned
    via,        \* how extract_topics was last called: "none", "text" or "article"
    lists,      \* the article lists two interleaved invocations work on
    given,      \* those lists as the callers handed them over
    frames,     \* each interleaved invocation's position and local variables
    interleaved, \* whether an invocation has stepped while the other was under way
    request,    \* what a front door was asked: door, company, summary_length
    feed,       \* what the news feed answers to that request
    stage,      \* where the front door's handler stands
    news,       \* the handler's list articles (analyzed_articles holds the same dicts)
    labelled,   \* how many of its dicts the classification loop has been through
    report,     \* the handler's analysis
    groq,       \* what the call of the Groq API came to
    summary,    \* the handler's summary after the "if not summary" block
    calls       \* the pipeline calls the handler has made, oldest first

concVars == <<lists, given, frames, interleaved>>

doorVars == <<request, feed, stage, news, labelled, report, groq, summary, calls>>

vars == <<articles, before, results, text, doc, found, via, concVars, doorVars>>

(***************************************************************************)
(* Bounds of the model.                                                    *)
(***************************************************************************)
MaxArticles == 3     \* longest article list handed to the engine
MaxCalls == 2        \* calls of comparative_analysis on one list
MaxFragments == 2    \* fragments concatenated into a classifier input
MaxListed == 2       \* longest article list handed to an interleaved invocation
MaxFeed == 11        \* most items a news feed answers with

(***************************************************************************)
(* Python values.                                                          *)
(***************************************************************************)
Range(s) == {s[i] : i \in 1..Len(s)}

EmptyDict == [k \in {} |-> {}]

\* d.get(k, default)
Get(d, k, default) == IF k \in DOMAIN d THEN d[k] ELSE default

\* d[k] = v
SetItem(d, k, v) == [f \in DOMAIN d \cup {k} |-> IF f = k THEN v ELSE d[f]]

\* {**a, **b}
Merge(a, b) == [f \in DOMAIN a \cup DOMAIN b |-> IF f \in DOMAIN b THEN b[f] ELSE a[f]]

\* the letters str.lower() changes, and what it makes of them
LowerCase ==
    "A" :> "a" @@ "B" :> "b" @@ "C" :> "c" @@ "D" :> "d" @@ "E" :> "e" @@ "F" :> "f" @@ "G" :> "g" @@
    "H" :> "h" @@ "I" :> "i" @@ "J" :> "j" @@ "K" :> "k" @@ "L" :> "l" @@ "M" :> "m" @@ "N" :> "n" @@
    "O" :> "o" @@ "P" :> "p" @@ "Q" :> "q" @@ "R" :> "r" @@ "S" :> "s" @@ "T" :> "t" @@ "U" :> "u" @@
    "V" :> "v" @@ "W" :> "w" @@ "X" :> "x" @@ "Y" :> "y" @@ "Z" :> "z"

\* str.lower() on one character
LowerChar(c) == IF c \in DOMAIN LowerCase THEN LowerCase[c] ELSE c

\* str.lower()
lower(s) == [i \in 1..Len(s) |-> LowerChar(s[i])]

\* keyword in text
Contains(keyword, s) ==
    \E i \in 1..(Len(s) - Len(keyword) + 1) :
        \A j \in 1..Len(keyword) : s[i + j - 1] = keyword[j]

(***************************************************************************)
(* extract_topics                                                          *)
(***************************************************************************)
topic_keywords ==
    <<
      [topic |-> "Finance", keywords |-> <<
          <<"f", "i", "n", "a", "n", "c", "e">>,  \* finance
          <<"m", "a", "r", "k", "e", "t">>,  \* market
          <<"s", "t", "o", "c", "k">>,  \* stock
          <<"i", "n", "v", "e", "s", "t">>,  \* invest
          <<"f", "i", "n", "a", "n", "c", "i", "a", "l">>,  \* financial
          <<"e", "c", "o", "n", "o", "m", "y">>,  \* economy
          <<"e", "c", "o", "n", "o", "m", "i", "c">>,  \* economic
          <<"s", "h", "a", "r", "e", "s">>,  \* shares
          <<"i", "n", "v", "e", "s", "t", "o", "r", "s">>,  \* investors
          <<"t", "r", "a", "d", "i", "n", "g">>,  \* trading
          <<"p", "r", "o", "f", "i", "t">>,  \* profit
          <<"r", "e", "v", "e", "n", "u", "e">>,  \* revenue
          <<"e", "a", "r", "n", "i", "n", "g", "s">>   \* earnings
        >>],
      [topic |-> "Technology", keywords |-> <<
          <<"t", "e", "c", "h">>,  \* tech
          <<"t", "e", "c", "h", "n", "o", "l", "o", "g", "y">>,  \* technology
          <<"d", "i", "g", "i", "t", "a", "l">>,  \* digital
          <<"s", "o", "f", "t", "w", "a", "r", "e">>,  \* software
          <<"h", "a", "r", "d", "w", "a", "r", "e">>,  \* hardware
          <<"a", "p", "p">>,  \* app
          <<"d", "e", "v", "i", "c", "e">>,  \* device
          <<"i", "n", "n", "o", "v", "a", "t", "i", "o", "n">>,  \* innovation
          <<"p", "l", "a", "t", "f", "o", "r", "m">>,  \* platform
          <<"p", "r", "o", "d", "u", "c", "t">>,  \* product
          <<"A", "I">>,  \* AI
          <<"a", "r", "t", "i", "f", "i", "c", "i", "a", "l", " ", "i", "n", "t", "e", "l", "l", "i", "g", "e", "n", "c", "e">>   \* artificial intelligence
        >>],
      [topic |-> "Automotive", keywords |-> <<
          <<"v", "e", "h", "i", "c", "l", "e">>,  \* vehicle
          <<"c", "a", "r">>,  \* car
          <<"a", "u", "t", "o", "m", "o", "t", "i", "v", "e">>,  \* automotive
          <<"d", "r", "i", "v", "e">>,  \* drive
          <<"d", "r", "i", "v", "i", "n", "g">>,  \* driving
          <<"E", "V">>,  \* EV
          <<"e", "l", "e", "c", "t", "r", "i", "c", " ", "v", "e", "h", "i", "c", "l", "e">>,  \* electric vehicle
          <<"a", "u", "t", "o", "n", "o", "m", "o", "u", "s">>,  \* autonomous
          <<"s", "e", "l", "f", "-", "d", "r", "i", "v", "i", "n", "g">>,  \* self-driving
          <<"m", "o", "d", "e", "l">>,  \* model
          <<"b", "a", "t", "t", "e", "r", "y">>,  \* battery
          <<"c", "h", "a", "r", "g", "i", "n", "g">>   \* charging
        >>],
      [topic |-> "Regulation", keywords |-> <<
          <<"r", "e", "g", "u", "l", "a", "t", "i", "o", "n">>,  \* regulation
          <<"r", "e", "g", "u", "l", "a", "t", "o", "r", "y">>,  \* regulatory
          <<"c", "o", "m", "p", "l", "i", "a", "n", "c", "e">>,  \* compliance
          <<"l", "e", "g", "a", "l">>,  \* legal
          <<"l", "a", "w">>,  \* law
          <<"l", "a", "w", "s", "u", "i", "t">>,  \* lawsuit
          <<"l", "i", "t", "i", "g", "a", "t", "i", "o", "n">>,  \* litigation
          <<"c", "o", "u", "r", "t">>,  \* court
          <<"r", "u", "l", "i", "n", "g">>,  \* ruling
          <<"g", "u", "i", "d", "e", "l", "i", "n", "e">>,  \* guideline
          <<"p", "o", "l", "i", "c", "y">>,  \* policy
          <<"p", "o", "l", "i", "c", "i", "e", "s">>   \* policies
        >>],
      [topic |-> "Environment", keywords |-> <<
          <<"e", "n", "v", "i", "r", "o", "n", "m", "e", "n", "t">>,  \* environment
          <<"e", "n", "v", "i", "r", "o", "n", "m", "e", "n", "t", "a", "l">>,  \* environmental
          <<"c", "l", "i", "m", "a", "t", "e">>,  \* climate
          <<"g", "r", "e", "e", "n">>,  \* green
          <<"s", "u", "s", "t", "a", "i", "n", "a", "b", "l", "e">>,  \* sustainable
          <<"s", "u", "s", "t", "a", "i", "n", "a", "b", "i", "l", "i", "t", "y">>,  \* sustainability
          <<"c", "a", "r", "b", "o", "n">>,  \* carbon
          <<"e", "m", "i", "s", "s", "i", "o", "n">>,  \* emission
          <<"r", "e", "n", "e", "w", "a", "b", "l", "e">>,  \* renewable
          <<"c", "l", "e", "a", "n", " ", "e", "n", "e", "r", "g", "y">>   \* clean energy
        >>]
    >>


\* any(keyword in text_lower for keyword in keywords)
AnyKeyword(keywords, text_lower) ==
    \E j \in 1..Len(keywords) : Contains(keywords[j], text_lower)

RECURSIVE MatchFrom(_, _)
\* the loop over topic_keywords.items(), from entry n on
MatchFrom(n, text_lower) ==
    IF n > Len(topic_keywords) THEN <<>>
    ELSE (IF AnyKeyword(topic_keywords[n].keywords, text_lower)
            THEN <<topic_keywords[n].topic>> ELSE <<>>)
         \o MatchFrom(n + 1, text_lower)

\* DefaultTopic with the default appended whatever was found
DefaultTopic_always(found_topics) == found_topics \o <<"General">>

\* if not found_topics: found_topics = ["General"]
DefaultTopic(found_topics) ==
    IF found_topics = <<>> THEN <<"General">> ELSE found_topics

extract_topics(t) == DefaultTopic(MatchFrom(1, lower(t)))

\* f"{title} {summary}" of article.get('title', '') and article.get('summary', '')
combined_text(article) ==
    Get(article, "title", <<>>) \o <<" ">> \o Get(article, "summary", <<>>)

(***************************************************************************)
(* comparative_analysis                                                    *)
(***************************************************************************)
Positive == <<"P", "o", "s", "i", "t", "i", "v", "e">>
Negative == <<"N", "e", "g", "a", "t", "i", "v", "e">>
Neutral == <<"N", "e", "u", "t", "r", "a", "l">>
Unknown == <<"U", "n", "k", "n", "o", "w", "n">>

\* SentimentOf with the default analyze_sentiment uses for lack of text
SentimentOf_neutral(article) == Get(article, "sentiment", Neutral)

\* article.get('sentiment', 'Unknown')
SentimentOf(article) == Get(article, "sentiment", Unknown)

\* Incr storing 1 instead of adding 1
Incr_reset(counts, sentiment) ==
    IF \E i \in 1..Len(counts) : counts[i].label = sentiment
    THEN [i \in 1..Len(counts) |->
            IF counts[i].label = sentiment
            THEN [label |-> sentiment, count |-> 1]
            ELSE counts[i]]
    ELSE Append(counts, [label |-> sentiment, count |-> 1])

\* sentiment_counts[sentiment] = sentiment_counts.get(sentiment, 0) + 1
\* (a dict keeps its keys in insertion order: a sequence of label/count entries)
Incr(counts, sentiment) ==
    IF \E i \in 1..Len(counts) : counts[i].label = sentiment
    THEN [i \in 1..Len(counts) |->
            IF counts[i].label = sentiment
            THEN [label |-> sentiment, count |-> counts[i].count + 1]
            ELSE counts[i]]
    ELSE Append(counts, [label |-> sentiment, count |-> 1])

RECURSIVE TallyUpTo(_, _)
\* the sentiment loop over the first n articles
TallyUpTo(arts, n) ==
    IF n = 0 THEN <<>>
    ELSE Incr(TallyUpTo(arts, n - 1), SentimentOf(arts[n]))

sentiment_counts(arts) == TallyUpTo(arts, Len(arts))

\* AssignTopics keeping a topics field the article already carries
AssignTopics_keep(article) ==
    IF "topics" \in DOMAIN article THEN article
    ELSE SetItem(article, "topics", extract_topics(combined_text(article)))

\* AssignTopics also storing the defaulted sentiment in the article
AssignTopics_setdefault(article) ==
    SetItem(SetItem(article, "topics", extract_topics(combined_text(article))),
            "sentiment", Get(article, "sentiment", Unknown))

\* one pass of the topics loop: article['topics'] = extract_topics(combined_text)
AssignTopics(article) ==
    SetItem(article, "topics", extract_topics(combined_text(article)))

\* the caller's list after the topics loop (the dicts are mutated in place)
TopicsLoop(arts) == [i \in 1..Len(arts) |-> AssignTopics(arts[i])]

\* the list article_topics built by the same loop: article_topics.append(topics),
\* the very lists stored in the articles (looped is the list after the loop)
article_topics(looped) == [i \in 1..Len(looped) |-> looped[i]["topics"]]

\* all_topics.update(topics) for every entry of article_topics
all_topics(topic_lists) ==
    UNION {Range(topic_lists[i]) : i \in 1..Len(topic_lists)}

RECURSIVE IntersectUpTo(_, _)
\* common_topics = set(all_topics), then intersected with the first n topic lists
IntersectUpTo(topic_lists, n) ==
    IF n = 0 THEN all_topics(topic_lists)
    ELSE IntersectUpTo(topic_lists, n - 1) \cap Range(topic_lists[n])

\* common_topics with the loop stopping one topic list short
common_topics_short(topic_lists) == IntersectUpTo(topic_lists, Len(topic_lists) - 1)

common_topics(topic_lists) == IntersectUpTo(topic_lists, Len(topic_lists))

\* topic_frequency counting the articles that lack the topic
topic_frequency_lacking(topic_lists) ==
    [t \in all_topics(topic_lists) |->
        Cardinality({i \in 1..Len(topic_lists) : t \notin Range(topic_lists[i])})]

\* topic_frequency[topic] = sum(1 for article_topic in article_topics if topic in article_topic)
topic_frequency(topic_lists) ==
    [t \in all_topics(topic_lists) |->
        Cardinality({i \in 1..Len(topic_lists) : t \in Range(topic_lists[i])})]

topic_analysis(topic_lists) ==
    [common_topics |-> common_topics(topic_lists),
     all_topics |-> all_topics(topic_lists),
     topic_frequency |-> topic_frequency(topic_lists)]

\* set(article.get('sentiment', 'Unknown') for article in articles)
sentiments(arts) == {SentimentOf(arts[i]) : i \in 1..Len(arts)}

\* Gate asking for more than two articles
Gate_strict(arts) == Len(arts) > 2 /\ Cardinality(sentiments(arts)) >= 2

\* len(articles) >= 2, then len(sentiments) >= 2
Gate(arts) == Len(arts) >= 2 /\ Cardinality(sentiments(arts)) >= 2

\* CoverageArticles reading the dicts as they were on entry
CoverageArticles_stale(arts, looped) == arts

\* the article dicts the coverage stage reads: the caller's dicts, which the topics
\* loop has mutated (arts is the list on entry, looped the list after the loop)
CoverageArticles(arts, looped) == looped

\* [a for a in articles if a.get('sentiment') == label]
WithSentiment(arts, label) ==
    SelectSeq(arts, LAMBDA a : "sentiment" \in DOMAIN a /\ a["sentiment"] = label)

\* topics.update(a.get('topics', [])) for every a
TopicsUnion(arts) ==
    UNION {Range(Get(arts[i], "topics", <<>>)) : i \in 1..Len(arts)}

\* Joined without the fallback text
Joined_raw(unique) == unique

\* ', '.join(unique) if unique else 'various topics' (the names joined, as a set)
Joined(unique) == IF unique # {} THEN unique ELSE {"various topics"}

PosNegComparison(pos_articles, neg_articles) ==
    LET pos_topics == TopicsUnion(pos_articles)
        neg_topics == TopicsUnion(neg_articles)
        pos_unique == pos_topics \ neg_topics
        neg_unique == neg_topics \ pos_topics
    IN  [comparison |->
            [text |-> "Positive articles focus on {pos}, while negative articles focus on {neg}.",
             pos |-> Joined(pos_unique), neg |-> Joined(neg_unique), sentiment |-> <<>>],
         impact |->
            [text |-> "This contrast shows different aspects of the company's public perception.",
             sentiment |-> <<>>, perception |-> ""]]

RECURSIVE MaxFrom(_, _, _)
\* max(sentiment_counts, key=sentiment_counts.get): the first key, in the dict's
\* order, with the largest count; best is the index kept so far
MaxFrom(counts, n, best) ==
    IF n > Len(counts) THEN counts[best].label
    ELSE MaxFrom(counts, n + 1, IF counts[n].count > counts[best].count THEN n ELSE best)

RECURSIVE MaxFrom_last(_, _, _)
\* MaxFrom letting a later key of equal count win
MaxFrom_last(counts, n, best) ==
    IF n > Len(counts) THEN counts[best].label
    ELSE MaxFrom_last(counts, n + 1,
                      IF counts[n].count >= counts[best].count THEN n ELSE best)

\* max_sentiment with ties going to the key inserted last
max_sentiment_last(counts) == MaxFrom_last(counts, 2, 1)

max_sentiment(counts) == MaxFrom(counts, 2, 1)

Perception(max) ==
    IF max = Positive THEN "a positive public perception"
    ELSE IF max = Negative THEN "a negative public perception"
    ELSE "a balanced public perception"

OverallComparison(counts) ==
    LET max == max_sentiment(counts)
    IN  [comparison |->
            [text |-> "Overall coverage is predominantly {sentiment}.",
             pos |-> {}, neg |-> {}, sentiment |-> lower(max)],
         impact |->
            [text |-> "The {sentiment} sentiment suggests {perception}.",
             sentiment |-> lower(max), perception |-> Perception(max)]]

\* the entries appended to comparisons: "if pos_articles and neg_articles", then
\* "if sentiment_counts"
ComparisonsOf(pos_articles, neg_articles, counts) ==
    (IF pos_articles # <<>> /\ neg_articles # <<>>
        THEN <<PosNegComparison(pos_articles, neg_articles)>> ELSE <<>>)
    \o (IF counts # <<>> THEN <<OverallComparison(counts)>> ELSE <<>>)

\* the list comparisons, for a list that passed the gate
comparisons(arts, looped) ==
    LET seen == CoverageArticles(arts, looped)
    IN  ComparisonsOf(WithSentiment(seen, Positive), WithSentiment(seen, Negative),
                      sentiment_counts(arts))

coverage_differences(arts, looped) ==
    IF Gate(arts) THEN comparisons(arts, looped) ELSE <<>>

\* the value returned for "not articles"
EmptyAnalysis ==
    [sentiment_distribution |-> <<>>,
     topic_overlap |-> EmptyDict,
     coverage_differences |-> <<>>]

\* the dict analysis of a non-empty list, given the list the topics loop left
Analysis(arts, looped) ==
    [sentiment_distribution |-> sentiment_counts(arts),
     topic_overlap |-> topic_analysis(article_topics(looped)),
     coverage_differences |-> coverage_differences(arts, looped)]

\* one call: the value returned and the caller's list as the call leaves it
Call(arts, looped) ==
    IF arts = <<>> THEN [analysis |-> EmptyAnalysis, articles |-> arts]
    ELSE [analysis |-> Analysis(arts, looped), articles |-> looped]

comparative_analysis(arts) == Call(arts, TopicsLoop(arts))

(***************************************************************************)
(* The summarizer: get_groq_summary and its fallback local_summarize.      *)
(***************************************************************************)
\* the characters \s and str.split() treat as white space
Whitespace == {" ", "\n", "\t", "\r", "\f"}

\* the characters after which the sentence splitter looks for white space
SentenceEnd == {".", "!", "?"}

\* the elements of a set of integers, ascending
Ascending(S) ==
    [k \in 1..Cardinality(S) |-> CHOOSE x \in S : Cardinality({y \in S : y < x}) = k - 1]

\* the last index of the run of white space (white = TRUE) or of other characters
\* (white = FALSE) that starts at a
RunEnd(t, a, white) ==
    CHOOSE b \in a..Len(t) :
        /\ \A k \in a..b : (t[k] \in Whitespace) = white
        /\ b = Len(t) \/ (t[b + 1] \in Whitespace) # white

\* re.split(r'(?<=[.!?])\s+', t): t is cut at every run of white space that follows
\* a sentence end; a cut at the very end leaves an empty last piece
split_sentences(t) ==
    LET cuts == SelectSeq([a \in 1..Len(t) |-> a],
                          LAMBDA a : a > 1 /\ t[a] \in Whitespace /\ t[a - 1] \in SentenceEnd)
        starts == <<1>> \o [k \in 1..Len(cuts) |->
                                RunEnd(t, cuts[k], TRUE) + 1]
        ends == [k \in 1..Len(cuts) |-> cuts[k] - 1] \o <<Len(t)>>
    IN  [k \in 1..Len(starts) |-> SubSeq(t, starts[k], ends[k])]

\* t.split(): the maximal runs of characters that are not white space
split(t) ==
    LET starts == SelectSeq([a \in 1..Len(t) |-> a],
                            LAMBDA a : t[a] \notin Whitespace /\ (a = 1 \/ t[a - 1] \in Whitespace))
    IN  [k \in 1..Len(starts) |->
            SubSeq(t, starts[k], RunEnd(t, starts[k], FALSE))]

RECURSIVE join(_, _)
\* sep.join(parts)
join(sep, parts) ==
    IF parts = <<>> THEN <<>>
    ELSE IF Len(parts) = 1 THEN parts[1]
    ELSE parts[1] \o sep \o join(sep, Tail(parts))

RECURSIVE SumSeq(_)
SumSeq(numbers) == IF numbers = <<>> THEN 0 ELSE numbers[1] + SumSeq(Tail(numbers))

\* the number of sentences local_summarize keeps (the default of max_sentences)
max_sentences == 5

\* the shortest text local_summarize shortens
MinSummarized == 100

\* the indices sorted(sentence_scores, key=sentence_scores.get, reverse=True)
\* [:max_sentences] keeps: a sentence without a word has no score; the sort is
\* stable, so of two equal scores the earlier sentence comes first.  Every score
\* is the sum of the word counts divided by the same max_frequency; the sums are
\* compared undivided.
TopSentences(scores) ==
    LET scored == {i \in 1..Len(scores) : scores[i] > 0}
        Ahead(i) == {j \in scored : scores[j] > scores[i] \/ (scores[j] = scores[i] /\ j < i)}
    IN  {i \in scored : Cardinality(Ahead(i)) < max_sentences}

\* local_summarize(text): a short text, or one of few sentences, is returned as it
\* is; otherwise the sentences whose words are most frequent, in their order
local_summarize(t) ==
    IF t = <<>> \/ Len(t) < MinSummarized THEN t
    ELSE LET sentences == split_sentences(t)
         IN  IF Len(sentences) <= max_sentences THEN t
             ELSE LET words == [i \in 1..Len(sentences) |-> split(lower(sentences[i]))]
                      all == UNION {Range(words[i]) : i \in 1..Len(words)}
                      word_frequencies ==
                          [w \in all |->
                              SumSeq([i \in 1..Len(words) |->
                                  Cardinality({k \in 1..Len(words[i]) : words[i][k] = w})])]
                      scores == [i \in 1..Len(words) |->
                                    SumSeq([k \in 1..Len(words[i]) |->
                                        word_frequencies[words[i][k]]])]
                      kept == Ascending(TopSentences(scores))
                  IN  join(<<" ">>, [k \in 1..Len(kept) |-> sentences[kept[k]]])

\* what the call of the Groq API comes to: no key in the environment, a request
\* that fails, a response without the expected keys, any other exception, or a
\* response that carries a content
GroqFailures == {"no_key", "request_error", "key_error", "exception"}

\* a Python value that is a str, and None
Str(chars) == [none |-> FALSE, chars |-> chars]

None == [none |-> TRUE, chars |-> <<>>]

\* "not value" for a str or None
Not(value) == value.none \/ value.chars = <<>>

\* get_groq_summary(text), fallback left at its default True: every failure
\* returns local_summarize(text), a response returns its content
get_groq_summary(t, outcome, content) ==
    IF outcome \in GroqFailures THEN Str(local_summarize(t)) ELSE content

(***************************************************************************)
(* The stages the front doors run before and after the engine:             *)
(* scrape_google_news, analyze_sentiment, the prompt and the basic summary.*)
(***************************************************************************)
\* items[:10]
FetchLimit == 10

Min(a, b) == IF a < b THEN a ELSE b

\* Limited without the slice
Limited_all(items) == items

\* items[:FetchLimit]
Limited(items) == SubSeq(items, 1, Min(FetchLimit, Len(items)))

\* tag.text if tag else default
TagText(item, tag, default) == IF tag \in DOMAIN item THEN item[tag] ELSE default

\* remove_html_tags: the text outside the markup, a tag running from "<" to the
\* next ">"
remove_html_tags(t) ==
    LET InTag(i) == \E a \in 1..i :
                        /\ t[a] = "<"
                        /\ \A k \in a..(i - 1) : t[k] # ">"
                        /\ \E b \in i..Len(t) : t[b] = ">"
    IN  SelectSeq([i \in 1..Len(t) |-> IF InTag(i) THEN "" ELSE t[i]], LAMBDA c : c # "")

\* the article dict built from one RSS item
ArticleOf(item) ==
    [title |-> TagText(item, "title", <<"N", "o", " ", "t", "i", "t", "l", "e">>),
     summary |-> remove_html_tags(TagText(item, "description", <<"N", "o", " ", "d", "e", "s", "c", "r", "i", "p", "t", "i", "o", "n">>)),
     source |-> TagText(item, "source", <<"U", "n", "k", "n", "o", "w", "n", " ", "s", "o", "u", "r", "c", "e">>),
     link |-> TagText(item, "link", <<"#">>),
     date |-> TagText(item, "pubDate", <<"U", "n", "k", "n", "o", "w", "n", " ", "d", "a", "t", "e">>)]

\* scrape_google_news: [] when the request raises or no feed yields an item;
\* otherwise an article for each of the first FetchLimit items, an item whose
\* parsing raises being skipped
scrape_google_news(answer) ==
    IF answer.raised \/ answer.items = <<>> THEN <<>>
    ELSE LET parsed == SelectSeq(Limited(answer.items), LAMBDA item : "unparsable" \notin DOMAIN item)
         IN  [i \in 1..Len(parsed) |-> ArticleOf(parsed[i])]

\* what TextBlob and VADER make of a text: the hybrid final_score in hundredths,
\* or an exception
final_score(t) ==
    IF t = <<"l", "a", "w">> THEN [raised |-> FALSE, hundredths |-> -6]
    ELSE IF t = <<"U", "p", ".", " ", "U", "p", "!", " ", "U", "p", "?", " ", "U", "p", ".", " ", "U", "p", ".", " ", "D", "n", ".">> THEN [raised |-> FALSE, hundredths |-> 6]
    ELSE IF t = <<"N", "o", " ", "d", "e", "s", "c", "r", "i", "p", "t", "i", "o", "n">> THEN [raised |-> FALSE, hundredths |-> 5]
    ELSE IF t = <<"c", "a", "r">> THEN [raised |-> FALSE, hundredths |-> -5]
    ELSE IF t = <<"t", "e", "c", "h">> THEN [raised |-> TRUE, hundredths |-> 0]
    ELSE [raised |-> FALSE, hundredths |-> 0]

\* analyze_sentiment: Neutral for an empty or blank text and when scoring raises;
\* Positive above 0.05, Negative below -0.05, Neutral between
analyze_sentiment(t) ==
    IF t = <<>> \/ \A i \in 1..Len(t) : t[i] \in Whitespace THEN Neutral
    ELSE LET score == final_score(t)
         IN  IF score.raised THEN Neutral
             ELSE IF score.hundredths > 5 THEN Positive
             ELSE IF score.hundredths < -5 THEN Negative
             ELSE Neutral

\* the loop body of both front doors: the article dict gets its sentiment and its
\* topics
Classified(article) ==
    SetItem(SetItem(article, "sentiment", analyze_sentiment(article["summary"])),
            "topics", extract_topics(article["title"] \o <<" ">> \o article["summary"]))

\* the characters of a topic name
TopicChars ==
    "Finance" :> <<"F", "i", "n", "a", "n", "c", "e">> @@ "Technology" :> <<"T", "e", "c", "h", "n", "o", "l", "o", "g", "y">> @@
    "Automotive" :> <<"A", "u", "t", "o", "m", "o", "t", "i", "v", "e">> @@ "Regulation" :> <<"R", "e", "g", "u", "l", "a", "t", "i", "o", "n">> @@
    "Environment" :> <<"E", "n", "v", "i", "r", "o", "n", "m", "e", "n", "t">> @@ "General" :> <<"G", "e", "n", "e", "r", "a", "l">>

\* ', '.join(topics)
JoinedTopics(topics) ==
    join(<<",", " ">>, [i \in 1..Len(topics) |-> TopicChars[topics[i]]])

Digits == <<"0", "1", "2", "3", "4", "5", "6", "7", "8", "9">>

RECURSIVE str_int(_)
\* str(n) for a natural number
str_int(n) ==
    IF n < 10 THEN <<Digits[n + 1]>>
    ELSE str_int(n \div 10) \o <<Digits[(n % 10) + 1]>>

\* the f-string of one article in all_articles_text; only the API lists the topics
ArticleText(door, article) ==
    <<"T", "i", "t", "l", "e", ":", " ">> \o article["title"] \o <<"\n", "S", "u", "m", "m", "a", "r", "y", ":", " ">> \o article["summary"]
    \o <<"\n", "S", "o", "u", "r", "c", "e", ":", " ">> \o article["source"] \o <<"\n", "S", "e", "n", "t", "i", "m", "e", "n", "t", ":", " ">> \o article["sentiment"] \o <<"\n">>
    \o (IF door = "api"
        THEN <<"T", "o", "p", "i", "c", "s", ":", " ">> \o JoinedTopics(article["topics"]) \o <<"\n">>
        ELSE <<>>)

all_articles_text(door, analyzed_articles) ==
    join(<<"\n">>, [i \in 1..Len(analyzed_articles) |-> ArticleText(door, analyzed_articles[i])])

\* summary_prompt of the API and groq_prompt of the dashboard
summary_prompt(asked, analyzed_articles) ==
    <<"S", "u", "m", "m", "a", "r", "i", "z", "e", " ", "t", "h", "e", " ", "f", "o", "l", "l", "o", "w", "i", "n", "g", " ", "n", "e", "w", "s", " ", "a", "r", "t", "i", "c", "l", "e", "s", " ", "a", "b", "o", "u", "t", " ">> \o asked.company
    \o (IF asked.door = "api"
        THEN <<" ", "i", "n", " ", "a", "p", "p", "r", "o", "x", "i", "m", "a", "t", "e", "l", "y", " ">> \o str_int(asked.summary_length) \o <<" ", "w", "o", "r", "d", "s", ".", " ", "F", "o", "c", "u", "s", " ", "o", "n", " ", "t", "h", "e", " ", "o", "v", "e", "r", "a", "l", "l", " ", "s", "e", "n", "t", "i", "m", "e", "n", "t", " ", "a", "n", "d", " ", "k", "e", "y", " ", "t", "o", "p", "i", "c", "s", ":", "\n">>
        ELSE <<":", "\n">>)
    \o all_articles_text(asked.door, analyzed_articles)

\* the orders sorted(topic_freq.items(), key=lambda x: x[1], reverse=True)[:3] can
\* come to: the topics by falling count, topics of equal count in the order the
\* interpreter iterates the set all_topics
top_topics(topic_freq) ==
    LET n == Min(3, Cardinality(DOMAIN topic_freq))
    IN  {top \in [1..n -> DOMAIN topic_freq] :
            /\ \A i, j \in 1..n : i < j => top[i] # top[j] /\ topic_freq[top[i]] >= topic_freq[top[j]]
            /\ \A t \in DOMAIN topic_freq \ Range(top) :
                    \A i \in 1..n : topic_freq[t] <= topic_freq[top[i]]}

\* the basic summary both front doors build when "not summary", for one order top
BasicSummary(company, analyzed_articles, analysis, top) ==
    LET counts == analysis.sentiment_distribution
        dominant_sentiment == IF counts # <<>> THEN max_sentiment(counts)
                              ELSE <<"M", "i", "x", "e", "d">>
        top_topics_text == IF top # <<>> THEN JoinedTopics(top) ELSE <<"v", "a", "r", "i", "o", "u", "s", " ", "t", "o", "p", "i", "c", "s">>
    IN  <<"N", "e", "w", "s", " ", "a", "n", "a", "l", "y", "s", "i", "s", " ", "f", "o", "r", " ">> \o company \o <<" ", "b", "a", "s", "e", "d", " ", "o", "n", " ">> \o str_int(Len(analyzed_articles))
        \o <<" ", "r", "e", "c", "e", "n", "t", " ", "a", "r", "t", "i", "c", "l", "e", "s", ".", " ", "T", "h", "e", " ", "o", "v", "e", "r", "a", "l", "l", " ", "s", "e", "n", "t", "i", "m", "e", "n", "t", " ", "i", "s", " ">> \o lower(dominant_sentiment)
        \o <<",", " ", "w", "i", "t", "h", " ", "c", "o", "v", "e", "r", "a", "g", "e", " ", "f", "o", "c", "u", "s", "i", "n", "g", " ", "o", "n", " ">> \o top_topics_text \o <<".">>

\* topic_freq as the front doors read it from the analysis
TopicFreqOf(analysis) ==
    IF "topic_frequency" \in DOMAIN analysis.topic_overlap
    THEN analysis.topic_overlap.topic_frequency ELSE EmptyDict

\* the summaries the "if not summary" block can come to
BasicSummaries(company, analyzed_articles, analysis) ==
    {BasicSummary(company, analyzed_articles, analysis, top) : top \in top_topics(TopicFreqOf(analysis))}

(***************************************************************************)
(* Inputs.                                                                 *)
(***************************************************************************)
\* article dicts before a sentiment is attached: one with no field at all, one as
\* the fetch stage builds it, one with no title that already carries a topics field
Contents ==
    { EmptyDict,
      [title |-> <<"C", "a", "r">>, summary |-> <<"l", "a", "w">>, source |-> <<"W", "i", "r", "e">>],
      [summary |-> <<"l", "a", "w">>, topics |-> <<"Technology">>] }

SentimentFields ==
    {EmptyDict} \cup {[sentiment |-> l] : l \in {Positive, Negative, Neutral}}

ArticlePool == {Merge(c, s) : c \in Contents, s \in SentimentFields}

\* pieces of classifier input
Fragments ==
    { <<" ">>, <<"S", "t", "o", "c", "k">>, <<"A", "I">>, <<"E", "V">>, <<"c", "a", "r">>,
      <<"b", "o", "n">>, <<"l", "a", "w">>, <<"t", "e", "c", "h">>, <<"g", "r", "e", "e", "n">>, <<"x">>,
      <<"c", "l">>, <<"i", "m", "a", "t", "e">>, <<"M", "a", "r", "k", "e", "t">>, <<"d", "r", "i", "v", "e">> }

RECURSIVE TextsOf(_)
\* every concatenation of at most n fragments
TextsOf(n) ==
    IF n = 0 THEN {<<>>}
    ELSE TextsOf(n - 1) \cup {t \o f : t \in TextsOf(n - 1), f \in Fragments}

Texts == TextsOf(MaxFragments)

\* article dicts whose title and summary are missing, empty or set
Docs ==
    {Merge(t, s) : t \in {EmptyDict, [title |-> <<>>], [title |-> <<"C", "a", "r">>]},
                   s \in {EmptyDict, [summary |-> <<>>], [summary |-> <<"l", "a", "w">>]}}

(***************************************************************************)
(* The state machine.                                                      *)
(***************************************************************************)
\* the two invocations that may interleave
Invocations == {1, 2}

\* an invocation about to run on list number l, its locals not yet bound
NewFrame(l) ==
    [list |-> l, pc |-> "enter", i |-> 1,
     sentiment_counts |-> <<>>, article_topics |-> <<>>, topic_overlap |-> EmptyDict,
     pos_refs |-> <<>>, neg_refs |-> <<>>, pos_articles |-> <<>>, neg_articles |-> <<>>,
     analysis |-> EmptyDict]

\* no front door has been asked anything
Unasked ==
    /\ request = [door |-> "api", company |-> <<>>, summary_length |-> 400]
    /\ feed = [raised |-> FALSE, items |-> <<>>]
    /\ stage = "idle"
    /\ news = <<>>
    /\ labelled = 0
    /\ report = EmptyDict
    /\ groq = "none"
    /\ summary = <<>>
    /\ calls = <<>>

\* no interleaved invocation has been started
Apart ==
    /\ lists = <<<<>>, <<>>>>
    /\ given = lists
    /\ frames = [p \in Invocations |-> NewFrame(p)]
    /\ interleaved = FALSE

\* nothing has been called yet
Idle ==
    /\ articles = <<>>
    /\ before = <<>>
    /\ results = <<>>
    /\ text = <<>>
    /\ doc = EmptyDict
    /\ found = <<>>
    /\ via = "none"

Init ==
    /\ Idle
    /\ Apart
    /\ Unasked

\* the caller appends an article to the list it will hand over
AddArticle ==
    /\ results = <<>>
    /\ Len(articles) < MaxArticles
    /\ \E a \in ArticlePool : articles' = Append(articles, a)
    /\ UNCHANGED <<before, results, text, doc, found, via, concVars, doorVars>>

\* analysis = comparative_analysis(articles), the first call on the list
Analyze ==
    /\ results = <<>>
    /\ before' = articles
    /\ LET call == comparative_analysis(articles)
       IN  /\ results' = <<call.analysis>>
           /\ articles' = call.articles
    /\ UNCHANGED <<text, doc, found, via, concVars, doorVars>>

\* comparative_analysis(articles) once more, on the list the earlier call left
Reanalyze ==
    /\ results # <<>>
    /\ Len(results) < MaxCalls
    /\ before' = articles
    /\ LET call == comparative_analysis(articles)
       IN  /\ results' = Append(results, call.analysis)
           /\ articles' = call.articles
    /\ UNCHANGED <<text, doc, found, via, concVars, doorVars>>

\* extract_topics(t) on a bare text
ClassifyText ==
    /\ via = "none"
    /\ \E t \in Texts :
        /\ text' = t
        /\ found' = extract_topics(t)
    /\ doc' = EmptyDict
    /\ via' = "text"
    /\ UNCHANGED <<articles, before, results, concVars, doorVars>>

\* extract_topics(f"{title} {summary}") on an article's fields
ClassifyArticle ==
    /\ via = "none"
    /\ \E d \in Docs :
        /\ doc' = d
        /\ text' = combined_text(d)
        /\ found' = extract_topics(combined_text(d))
    /\ via' = "article"
    /\ UNCHANGED <<articles, before, results, concVars, doorVars>>

Next == AddArticle \/ Analyze \/ Reanalyze

Spec == Init /\ [][Next]_vars

\* a list is built and analysed once
NextOnce == AddArticle \/ Analyze

SpecOnce == Init /\ [][NextOnce]_vars

NextTopics == ClassifyText \/ ClassifyArticle

SpecTopics == Init /\ [][NextTopics]_vars

(***************************************************************************)
(* Two invocations of comparative_analysis, interleaved statement by       *)
(* statement.  An invocation's locals live in its frame; the article dicts *)
(* of its list are the only objects another invocation can reach.          *)
(***************************************************************************)
\* the kinds of article the interleaved invocations are given
SharedPool ==
    { [title |-> <<"C", "a", "r">>, summary |-> <<"l", "a", "w">>, sentiment |-> Positive],
      [summary |-> <<"l", "a", "w">>, topics |-> <<"Technology">>, sentiment |-> Negative],
      EmptyDict }

SharedLists == UNION {[1..n -> SharedPool] : n \in 0..MaxListed}

\* both callers pass the same list object, or each passes a list of its own
InitConc ==
    /\ Idle
    /\ Unasked
    /\ \E same \in BOOLEAN, l1 \in SharedLists, l2 \in SharedLists :
        /\ lists = <<l1, IF same THEN <<>> ELSE l2>>
        /\ frames = [p \in Invocations |-> NewFrame(IF same THEN 1 ELSE p)]
    /\ given = lists
    /\ interleaved = FALSE

\* the list invocation p was called with, as it is now
ListOf(p) == lists[frames[p].list]

\* invocation p is between its first statement and its return
UnderWay(p) == frames[p].pc \notin {"enter", "done"}

\* invocation p takes a step that leaves its frame as f
Step(p, f) ==
    /\ frames' = [frames EXCEPT ![p] = f]
    /\ interleaved' = (interleaved \/ \E q \in Invocations \ {p} : UnderWay(q))
    /\ UNCHANGED <<articles, before, results, text, doc, found, via, given, doorVars>>

\* StoreTopics appending to the topics the article already carries
StoreTopics_extend(article, topics) ==
    SetItem(article, "topics", Get(article, "topics", <<>>) \o topics)

\* article['topics'] = topics
StoreTopics(article, topics) == SetItem(article, "topics", topics)

\* "if not articles": return the empty analysis, or go on to the sentiment loop
Enter(p) ==
    /\ frames[p].pc = "enter"
    /\ IF ListOf(p) = <<>>
       THEN Step(p, [frames[p] EXCEPT !.pc = "done", !.analysis = EmptyAnalysis])
       ELSE Step(p, [frames[p] EXCEPT !.pc = "tally"])
    /\ UNCHANGED lists

\* one pass of the sentiment loop
Tally(p) ==
    LET f == frames[p]
        last == f.i = Len(ListOf(p))
    IN  /\ f.pc = "tally"
        /\ Step(p, [f EXCEPT
                !.sentiment_counts = Incr(@, SentimentOf(ListOf(p)[f.i])),
                !.i = IF last THEN 1 ELSE @ + 1,
                !.pc = IF last THEN "topics" ELSE "tally"])
        /\ UNCHANGED lists

\* one pass of the topics loop: the article dict is written in place
Topics(p) ==
    LET f == frames[p]
        last == f.i = Len(ListOf(p))
        topics == extract_topics(combined_text(ListOf(p)[f.i]))
    IN  /\ f.pc = "topics"
        /\ lists' = [lists EXCEPT ![f.list][f.i] = StoreTopics(@, topics)]
        /\ Step(p, [f EXCEPT
                !.article_topics = Append(@, topics),
                !.i = IF last THEN 1 ELSE @ + 1,
                !.pc = IF last THEN "overlap" ELSE "topics"])

\* common_topics, topic_frequency and analysis['topic_overlap'], from the locals
Overlap(p) ==
    LET f == frames[p]
    IN  /\ f.pc = "overlap"
        /\ Step(p, [f EXCEPT
                !.topic_overlap = topic_analysis(f.article_topics),
                !.pc = "gate"])
        /\ UNCHANGED lists

\* the analysis dict as invocation p returns it
Returned(f, entries) ==
    [sentiment_distribution |-> f.sentiment_counts,
     topic_overlap |-> f.topic_overlap,
     coverage_differences |-> entries]

\* the indices of the dicts a list comprehension over the list selects
Refs(arts, label) ==
    SelectSeq([i \in 1..Len(arts) |-> i],
              LAMBDA i : "sentiment" \in DOMAIN arts[i] /\ arts[i]["sentiment"] = label)

\* the two length tests and the list comprehensions pos_articles, neg_articles
Select(p) ==
    LET f == frames[p]
        pos == Refs(ListOf(p), Positive)
        neg == Refs(ListOf(p), Negative)
    IN  /\ f.pc = "gate"
        /\ IF ~Gate(ListOf(p))
           THEN Step(p, [f EXCEPT !.pc = "done", !.analysis = Returned(f, <<>>)])
           ELSE Step(p, [f EXCEPT
                    !.pos_refs = pos, !.neg_refs = neg,
                    !.pc = IF pos # <<>> /\ neg # <<>> THEN "pos" ELSE "trend"])
        /\ UNCHANGED lists

\* pos_topics.update(a.get('topics', [])) for one a of pos_articles: the dict is
\* read as it is at this moment
ReadPos(p) ==
    LET f == frames[p]
        last == f.i = Len(f.pos_refs)
    IN  /\ f.pc = "pos"
        /\ Step(p, [f EXCEPT
                !.pos_articles = Append(@, ListOf(p)[f.pos_refs[f.i]]),
                !.i = IF last THEN 1 ELSE @ + 1,
                !.pc = IF last THEN "neg" ELSE "pos"])
        /\ UNCHANGED lists

\* neg_topics.update(a.get('topics', [])) for one a of neg_articles
ReadNeg(p) ==
    LET f == frames[p]
        last == f.i = Len(f.neg_refs)
    IN  /\ f.pc = "neg"
        /\ Step(p, [f EXCEPT
                !.neg_articles = Append(@, ListOf(p)[f.neg_refs[f.i]]),
                !.i = IF last THEN 1 ELSE @ + 1,
                !.pc = IF last THEN "trend" ELSE "neg"])
        /\ UNCHANGED lists

\* the comparisons are built from what was read, and the analysis is returned
Return(p) ==
    LET f == frames[p]
    IN  /\ f.pc = "trend"
        /\ Step(p, [f EXCEPT
                !.pc = "done",
                !.analysis = Returned(f, ComparisonsOf(f.pos_articles, f.neg_articles,
                                                       f.sentiment_counts))])
        /\ UNCHANGED lists

NextConc ==
    \E p \in Invocations :
        \/ Enter(p)
        \/ Tally(p)
        \/ Topics(p)
        \/ Overlap(p)
        \/ Select(p)
        \/ ReadPos(p)
        \/ ReadNeg(p)
        \/ Return(p)

SpecConc == InitConc /\ [][NextConc]_vars

(***************************************************************************)
(* The front doors: the handler analyze_news of the API and the body of    *)
(* main of the dashboard, stage by stage.                                  *)
(***************************************************************************)
Doors == {"api", "app"}

Companies == {<<>>, <<" ">>, <<"T", "e", "s", "l", "a">>}

SummaryLengths == {50, 400}

\* RSS items: complete, with markup and sentences in the description, without any
\* tag, with a description the scorer puts on a bound, with a blank description,
\* and one whose scoring raises
FeedItems ==
    << [title |-> <<"C", "a", "r">>, description |-> <<"l", "a", "w">>, source |-> <<"W", "i", "r", "e">>,
        link |-> <<"u">>, pubDate |-> <<"M", "o", "n">>],
       [title |-> <<"S", "t", "o", "c", "k">>, description |-> <<"<", "b", ">", "U", "p", ".", "<", "/", "b", ">", " ", "U", "p", "!", " ", "U", "p", "?", " ", "<", "a", " ", "h", "r", "e", "f", "=", "\"", "u", "\"", ">", "U", "p", ".", "<", "/", "a", ">", " ", "U", "p", ".", " ", "D", "n", ".">>],
       EmptyDict,
       [title |-> <<"t", "e", "c", "h">>, description |-> <<"c", "a", "r">>],
       [title |-> <<"A", "I">>, description |-> <<" ">>],
       [title |-> <<"g", "r", "e", "e", "n">>, description |-> <<"t", "e", "c", "h">>] >>

\* an RSS item whose parsing raises
Unparsable == [unparsable |-> <<>>]

\* the feed of n items that starts at item k of FeedItems and goes round, its
\* first item unparsable if spoilt
FeedFrom(n, k, spoilt) ==
    [i \in 1..n |-> IF spoilt /\ i = 1 THEN Unparsable
                    ELSE FeedItems[((i + k - 2) % Len(FeedItems)) + 1]]

\* the request for the feed raises, or the feed answers with some items
Feeds ==
    {[raised |-> TRUE, items |-> <<>>]}
    \cup {[raised |-> FALSE, items |-> FeedFrom(n, k, spoilt)] :
            n \in 0..MaxFeed, k \in 1..Len(FeedItems), spoilt \in BOOLEAN}

\* the content of a response of the Groq API
GroqContents == {None, Str(<<>>), Str(<<"T", "e", "s", "l", "a", " ", "i", "s", " ", "u", "p", ".">>)}

InitFront ==
    /\ Idle
    /\ Apart
    /\ request \in [door : Doors, company : Companies, summary_length : SummaryLengths]
    /\ feed \in Feeds
    /\ stage = "asked"
    /\ news = <<>>
    /\ labelled = 0
    /\ report = EmptyDict
    /\ groq = "none"
    /\ summary = <<>>
    /\ calls = <<>>

\* the handler makes one pipeline call
Log(op, arg) == calls' = Append(calls, [op |-> op, articles |-> arg])

\* the API answers 400 to an empty or blank company; the dashboard runs for any
\* company that is not empty
Validate ==
    /\ stage = "asked"
    /\ stage' = IF request.door = "api"
                THEN IF request.company = <<>>
                        \/ \A i \in 1..Len(request.company) : request.company[i] \in Whitespace
                     THEN "rejected" ELSE "fetch"
                ELSE IF request.company # <<>> THEN "fetch" ELSE "idle"
    /\ UNCHANGED <<request, feed, news, labelled, report, groq, summary, calls>>
    /\ UNCHANGED <<articles, before, results, text, doc, found, via, concVars>>

\* articles = scrape_google_news(company)
Scrape ==
    /\ stage = "fetch"
    /\ news' = scrape_google_news(feed)
    /\ Log("scrape_google_news", news')
    /\ stage' = "fetched"
    /\ UNCHANGED <<request, feed, labelled, report, groq, summary>>
    /\ UNCHANGED <<articles, before, results, text, doc, found, via, concVars>>

\* "if not articles": 404 from the API, st.error and return in the dashboard
NoArticles ==
    /\ stage = "fetched"
    /\ news = <<>>
    /\ stage' = "no_articles"
    /\ UNCHANGED <<request, feed, news, labelled, report, groq, summary, calls>>
    /\ UNCHANGED <<articles, before, results, text, doc, found, via, concVars>>

\* one pass of the classification loop
Label ==
    /\ stage = "fetched"
    /\ labelled < Len(news)
    /\ news' = [news EXCEPT ![labelled + 1] = Classified(@)]
    /\ labelled' = labelled + 1
    /\ Log("classify", <<news'[labelled + 1]>>)
    /\ UNCHANGED <<request, feed, stage, report, groq, summary>>
    /\ UNCHANGED <<articles, before, results, text, doc, found, via, concVars>>

\* analysis = comparative_analysis(analyzed_articles), the loop being over
Compare ==
    /\ stage = "fetched"
    /\ news # <<>>
    /\ labelled = Len(news)
    /\ LET call == comparative_analysis(news)
       IN  /\ report' = call.analysis
           /\ news' = call.articles
    /\ Log("comparative_analysis", news)
    /\ stage' = "analyzed"
    /\ UNCHANGED <<request, feed, labelled, groq, summary>>
    /\ UNCHANGED <<articles, before, results, text, doc, found, via, concVars>>

\* the summaries the handler can go on with, given what get_groq_summary returned
\* and what the "if not summary" block can build
SummaryFrom(returned, basics) == IF Not(returned) THEN basics ELSE {returned.chars}

\* summary = get_groq_summary(prompt), then the "if not summary" block
Summarize ==
    /\ stage = "analyzed"
    /\ \E outcome \in GroqFailures \cup {"content"}, content \in GroqContents :
        /\ outcome \in GroqFailures => content = None
        /\ groq' = outcome
        /\ summary' \in SummaryFrom(
                get_groq_summary(summary_prompt(request, news), outcome, content),
                BasicSummaries(request.company, news, report))
    /\ Log("get_groq_summary", <<>>)
    /\ stage' = "summarized"
    /\ UNCHANGED <<request, feed, news, labelled, report>>
    /\ UNCHANGED <<articles, before, results, text, doc, found, via, concVars>>

NextFront == Validate \/ Scrape \/ NoArticles \/ Label \/ Compare \/ Summarize

SpecFront == InitFront /\ [][NextFront]_vars

(***************************************************************************)
(* The claims.                                                             *)
(***************************************************************************)
Taxonomy == {"Finance", "Technology", "Automotive", "Regulation", "Environment", "General"}

Called == results # <<>>

\* the value the latest call returned
Last == results[Len(results)]

RECURSIVE SumCounts(_)
SumCounts(counts) ==
    IF counts = <<>> THEN 0 ELSE Head(counts).count + SumCounts(Tail(counts))

\* the sentiment label of an article, a missing sentiment being Unknown
LabelOf(a) == IF "sentiment" \in DOMAIN a THEN a["sentiment"] ELSE Unknown

OverlapFields == {"common_topics", "all_topics", "topic_frequency"}

\* C1: called on the empty list, comparative_analysis returns an empty
\* sentiment distribution, a topic overlap whose common_topics, all_topics and
\* topic_frequency are all present and empty, and no coverage differences.
C1_EmptyInputDegenerate ==
    (Called /\ before = <<>>) =>
        /\ Last.sentiment_distribution = <<>>
        /\ DOMAIN Last.topic_overlap = OverlapFields
        /\ Last.topic_overlap.common_topics = {}
        /\ Last.topic_overlap.all_topics = {}
        /\ DOMAIN Last.topic_overlap.topic_frequency = {}
        /\ Last.coverage_differences = <<>>

\* C2: for a non-empty list, the counts of the sentiment distribution sum to the
\* number of articles.
C2_CountsSumToArticles ==
    (Called /\ before # <<>>) =>
        SumCounts(Last.sentiment_distribution) = Len(before)

C2_Witness ==
    /\ Called
    /\ Len(before) = 3
    /\ Len(Last.sentiment_distribution) = 2

\* C3: for every list, the empty one included, the topic overlap returned has
\* every key of topic_frequency in all_topics, and common_topics within all_topics.
C3_OverlapWithinAllTopics ==
    Called =>
        /\ OverlapFields \subseteq DOMAIN Last.topic_overlap
        /\ DOMAIN Last.topic_overlap.topic_frequency \subseteq Last.topic_overlap.all_topics
        /\ Last.topic_overlap.common_topics \subseteq Last.topic_overlap.all_topics

\* C4: coverage_differences is empty exactly when the list has fewer than two
\* articles or all its articles carry one sentiment label (a missing one being
\* Unknown).
C4_CoverageEmptyIffGateFails ==
    Called =>
        ((Last.coverage_differences = <<>>) <=>
            (\/ Len(before) < 2
             \/ \A i, j \in 1..Len(before) : LabelOf(before[i]) = LabelOf(before[j])))

\* three Neutral articles of differing text, and no coverage differences
C4_Witness ==
    /\ Called
    /\ Len(before) = 3
    /\ \A i \in 1..3 : LabelOf(before[i]) = Neutral
    /\ \E i, j \in 1..3 : combined_text(before[i]) # combined_text(before[j])
    /\ Last.coverage_differences = <<>>

\* C5: a topic other than General is returned whenever the text contains one of
\* the keywords listed for it, and only if one of its keywords occurs in the
\* text, letter case aside.
C5_KeywordYieldsTopic ==
    (via # "none") =>
        \A n \in 1..Len(topic_keywords) :
            LET entry == topic_keywords[n]
            IN  /\ \A j \in 1..Len(entry.keywords) :
                      Contains(entry.keywords[j], text) => entry.topic \in Range(found)
                /\ entry.topic \in Range(found) =>
                      \E j \in 1..Len(entry.keywords) :
                          Contains(lower(entry.keywords[j]), lower(text))

\* C6: extract_topics returns a non-empty list of taxonomy labels in which General
\* occurs exactly when no other label does; a text of spaces only, and an article
\* whose title and summary are each missing or empty, give General alone.
C6_NonEmptyGeneralAlone ==
    (via # "none") =>
        /\ found # <<>>
        /\ Range(found) \subseteq Taxonomy
        /\ ("General" \in Range(found)) <=> (Range(found) \ {"General"} = {})
        /\ (\A i \in 1..Len(text) : text[i] = " ") => found = <<"General">>
        /\ (/\ via = "article"
            /\ Get(doc, "title", <<>>) = <<>>
            /\ Get(doc, "summary", <<>>) = <<>>) => found = <<"General">>

\* an article with neither field, classified General
C6_Witness ==
    /\ via = "article"
    /\ doc = EmptyDict
    /\ found = <<"General">>

\* C7 as stated: the call leaves every article of its input as it was.
C7_ArticlesUnchanged == Called => articles = before

\* C7 as amended: the call keeps the list's length and, in every article, every
\* field other than topics, with its value; it neither adds nor drops such a field.
C7_OtherFieldsUnchanged ==
    Called =>
        /\ Len(articles) = Len(before)
        /\ \A i \in 1..Len(before) :
              /\ DOMAIN articles[i] \ {"topics"} = DOMAIN before[i] \ {"topics"}
              /\ \A f \in DOMAIN before[i] \ {"topics"} : articles[i][f] = before[i][f]

\* an article with other fields whose topics field the call created
C7_Witness ==
    /\ Called
    /\ \E i \in 1..Len(before) :
          /\ "source" \in DOMAIN before[i]
          /\ "topics" \notin DOMAIN before[i]
          /\ "topics" \in DOMAIN articles[i]

\* topics fields a caller may have attached
TopicsChoices == {EmptyDict, [topics |-> <<"Technology">>]}

\* article a with its topics field replaced by the choice c
Retopic(a, c) == Merge([f \in DOMAIN a \ {"topics"} |-> a[f]], c)

\* the list arts with the topics field of article i replaced by the choice ch[i]
Retopiced(arts, ch) == [i \in 1..Len(arts) |-> Retopic(arts[i], ch[i])]

\* C8: the value returned does not depend on the topics fields of the input, and
\* after the call each article's topics is extract_topics of its title and
\* summary joined by a space.
C8_TopicsFieldIgnored ==
    Called =>
        /\ \A ch \in [1..Len(before) -> TopicsChoices] :
              comparative_analysis(Retopiced(before, ch)).analysis = Last
        /\ \A i \in 1..Len(before) :
              articles[i]["topics"] =
                  extract_topics(Get(before[i], "title", <<>>) \o <<" ">>
                                 \o Get(before[i], "summary", <<>>))

\* a list with an attached topics field that differs from the derived one, and
\* coverage differences that name topics
C8_Witness ==
    /\ Called
    /\ \E i \in 1..Len(before) :
          "topics" \in DOMAIN before[i] /\ before[i]["topics"] # articles[i]["topics"]
    /\ Len(Last.coverage_differences) = 2

\* C9: a second call on the same list returns what the first returned.
C9_SecondCallSame ==
    \A n \in 2..Len(results) : results[n] = results[1]

C9_Witness ==
    /\ Len(results) = 2
    /\ Len(results[2].coverage_differences) = 2
    /\ results[2].coverage_differences[1].comparison.pos # {"various topics"}

\* C10: an article with no sentiment field is counted under Unknown, and Unknown
\* counts as a label of its own for the gate of the coverage differences.
C10_MissingSentimentUnknown ==
    (Called /\ \E i \in 1..Len(before) : "sentiment" \notin DOMAIN before[i]) =>
        /\ \E k \in 1..Len(Last.sentiment_distribution) :
              /\ Last.sentiment_distribution[k].label = Unknown
              /\ Last.sentiment_distribution[k].count =
                    Cardinality({i \in 1..Len(before) : LabelOf(before[i]) = Unknown})
        /\ (\E j \in 1..Len(before) : LabelOf(before[j]) # Unknown) =>
              Last.coverage_differences # <<>>

\* one article without a sentiment beside a Positive one
C10_Witness ==
    /\ Called
    /\ Len(before) = 2
    /\ "sentiment" \notin DOMAIN before[1]
    /\ LabelOf(before[2]) = Positive
    /\ Len(Last.coverage_differences) = 1

(***************************************************************************)
(* The coverage-difference entries and the topic statistics.               *)
(***************************************************************************)
\* the topic sets re-derived from the title and summary of each article of the input
Derived == [i \in 1..Len(before) |-> Range(extract_topics(combined_text(before[i])))]

\* the input has at least two articles and at least two sentiment labels
GatePassed ==
    /\ Called
    /\ Len(before) >= 2
    /\ \E i, j \in 1..Len(before) : LabelOf(before[i]) # LabelOf(before[j])

Labelled(label) == {i \in 1..Len(before) : LabelOf(before[i]) = label}

\* the names a comparison lists for a set of topics
Named(topics) == IF topics = {} THEN {"various topics"} ELSE topics

\* the union of the topic sets derived[i] of the articles labelled label
TopicsOfLabel(derived, label) == UNION {derived[i] : i \in Labelled(label)}

\* the Positive-versus-Negative entry is there exactly when both labels occur, comes
\* first and names the topics of one side only
PosNegEntryOf(derived, entries) ==
    LET both == Labelled(Positive) # {} /\ Labelled(Negative) # {}
        posTopics == TopicsOfLabel(derived, Positive)
        negTopics == TopicsOfLabel(derived, Negative)
    IN  /\ Len(entries) = IF both THEN 2 ELSE 1
        /\ both =>
              /\ entries[1].comparison.text =
                    "Positive articles focus on {pos}, while negative articles focus on {neg}."
              /\ entries[1].comparison.pos = Named(posTopics \ negTopics)
              /\ entries[1].comparison.neg = Named(negTopics \ posTopics)

\* C12: when the gate passes there are two entries if a Positive and a Negative
\* article exist and one otherwise; the Positive-versus-Negative entry comes first
\* and names posTopics minus negTopics and negTopics minus posTopics, each
\* replaced by "various topics" when empty.
C12_PosNegEntry ==
    GatePassed => PosNegEntryOf(Derived, Last.coverage_differences)

\* a Positive-versus-Negative entry with topics named on one side only
C12_Witness ==
    /\ GatePassed
    /\ Len(Last.coverage_differences) = 2
    /\ Last.coverage_differences[1].comparison.pos # {"various topics"}
    /\ Last.coverage_differences[1].comparison.neg = {"various topics"}

\* the first article of the input that carries label
FirstOf(label) == CHOOSE i \in Labelled(label) : \A j \in Labelled(label) : i <= j

\* the label with the most articles, the one met first in the input among equals
Dominant ==
    CHOOSE l \in {LabelOf(before[i]) : i \in 1..Len(before)} :
        \A m \in {LabelOf(before[i]) : i \in 1..Len(before)} :
            \/ Cardinality(Labelled(l)) > Cardinality(Labelled(m))
            \/ /\ Cardinality(Labelled(l)) = Cardinality(Labelled(m))
               /\ FirstOf(l) <= FirstOf(m)

\* C13: when the gate passes the last entry names a label of maximal count, among
\* tied labels the one whose first article comes earliest, and its impact is the
\* positive sentence for Positive, the negative one for Negative, the balanced one
\* for any other label.
C13_DominantEntry ==
    GatePassed =>
        LET entry == Last.coverage_differences[Len(Last.coverage_differences)]
        IN  /\ entry.comparison.text = "Overall coverage is predominantly {sentiment}."
            /\ entry.comparison.sentiment = lower(Dominant)
            /\ entry.impact.sentiment = lower(Dominant)
            /\ entry.impact.perception =
                  (IF Dominant = Positive THEN "a positive public perception"
                   ELSE IF Dominant = Negative THEN "a negative public perception"
                   ELSE "a balanced public perception")

\* a tie between an article without sentiment, first in the input, and a Positive
\* one: Unknown is named, with the balanced sentence
C13_Witness ==
    /\ GatePassed
    /\ Len(before) = 2
    /\ "sentiment" \notin DOMAIN before[1]
    /\ LabelOf(before[2]) = Positive
    /\ Last.coverage_differences[1].comparison.sentiment = lower(Unknown)
    /\ Last.coverage_differences[1].impact.perception = "a balanced public perception"

\* common_topics is the intersection of the sets derived[i], and a topic is common
\* exactly when every article counts towards its frequency
CommonOf(derived, overlap) ==
    /\ overlap.common_topics =
          {t \in Taxonomy : \A i \in 1..Len(before) : t \in derived[i]}
    /\ \A t \in overlap.all_topics :
          (t \in overlap.common_topics) <=> (overlap.topic_frequency[t] = Len(before))
    /\ Len(before) = 1 => overlap.common_topics = overlap.all_topics

\* C14: for a non-empty input common_topics is the intersection of the re-derived
\* topic sets; a topic is common exactly when its frequency is the number of
\* articles; for a single article common_topics is all_topics.
C14_CommonIsIntersection ==
    (Called /\ before # <<>>) => CommonOf(Derived, Last.topic_overlap)

\* three articles sharing one topic, not all of them
C14_Witness ==
    /\ Called
    /\ Len(before) = 3
    /\ Last.topic_overlap.common_topics # {}
    /\ Last.topic_overlap.common_topics # Last.topic_overlap.all_topics

RECURSIVE SumOver(_, _)
\* the sum of f over the keys in S
SumOver(f, S) ==
    IF S = {} THEN 0
    ELSE LET k == CHOOSE x \in S : TRUE IN f[k] + SumOver(f, S \ {k})

\* the keys of topic_frequency are all_topics, the union of the sets derived[i], and
\* each frequency counts the articles whose set holds the topic
FrequencyOf(derived, overlap) ==
    LET freq == overlap.topic_frequency
    IN  /\ overlap.all_topics = UNION {derived[i] : i \in 1..Len(before)}
        /\ DOMAIN freq = overlap.all_topics
        /\ \A t \in DOMAIN freq :
              /\ freq[t] = Cardinality({i \in 1..Len(before) : t \in derived[i]})
              /\ 1 <= freq[t]
              /\ freq[t] <= Len(before)
        /\ SumOver(freq, DOMAIN freq) >= Len(before)

\* C15: for a non-empty input the keys of topic_frequency are all_topics, the
\* union of the re-derived topic sets, and each frequency is the number of
\* articles whose re-derived set holds the topic: between 1 and the number of
\* articles, the frequencies summing to at least that number.
C15_FrequencyCountsArticles ==
    (Called /\ before # <<>>) => FrequencyOf(Derived, Last.topic_overlap)

\* a topic held by two of three articles and another held by one
C15_Witness ==
    /\ Called
    /\ Len(before) = 3
    /\ \E t, u \in DOMAIN Last.topic_overlap.topic_frequency :
          /\ Last.topic_overlap.topic_frequency[t] = 2
          /\ Last.topic_overlap.topic_frequency[u] = 1

(***************************************************************************)
(* Interleaved invocations.                                                *)
(***************************************************************************)
\* C11: whenever one of two invocations whose statements interleave has returned,
\* on a list of its own or on a list the other invocation works on too, the value
\* it returned is the value comparative_analysis returns for the list as the
\* caller handed it over, run alone.
C11_InterleavedSameAsAlone ==
    \A p \in Invocations :
        frames[p].pc = "done" =>
            frames[p].analysis = comparative_analysis(given[frames[p].list]).analysis

\* both invocations have returned from one shared list after stepping in turn; the
\* list came with a stale topics field and the result reports on both sides
C11_Witness ==
    /\ \A p \in Invocations : frames[p].pc = "done" /\ frames[p].list = 1
    /\ interleaved
    /\ \E i \in 1..Len(given[1]) : "topics" \in DOMAIN given[1][i]
    /\ Len(frames[1].analysis.coverage_differences) = 2

(***************************************************************************)
(* The front doors.                                                        *)
(***************************************************************************)
\* C16: when the call of the Groq API fails (no key, a request error, a response
\* without the expected keys, any other exception), the summary the front door
\* goes on with is the basic summary "News analysis for <company> based on <n>
\* recent articles. ..." built from the article count, the dominant sentiment and
\* the up to three most frequent topics.
C16_FailurePresentsBasic ==
    (stage = "summarized" /\ groq \in GroqFailures) =>
        summary \in BasicSummaries(request.company, news, report)

\* the operations of the calls made so far
Ops == [k \in 1..Len(calls) |-> calls[k].op]

\* an article the classification loop has been through: the five fields of the
\* fetch, a sentiment of the three labels and a topic list of the taxonomy
IsLabelled(article, fetched) ==
    /\ DOMAIN article = DOMAIN fetched \cup {"sentiment", "topics"}
    /\ \A key \in DOMAIN fetched : article[key] = fetched[key]
    /\ article["sentiment"] \in {Positive, Neutral, Negative}
    /\ article["topics"] # <<>>
    /\ Range(article["topics"]) \subseteq Taxonomy

\* C17: in both front doors comparative_analysis is called only after the fetch has
\* returned a list that is not empty and holds at most 10 articles and after each
\* of these articles has been through the classification loop, so that each has a
\* sentiment in {Positive, Neutral, Negative} and a topic set; it is never called on
\* an empty list or after a fetch that failed; and get_groq_summary is called only
\* after comparative_analysis has returned.
C17_StagesInOrder ==
    /\ \A k \in 1..Len(calls) :
        Ops[k] = "comparative_analysis" =>
            LET fetched == calls[1].articles
                passed == calls[k].articles
            IN  /\ Ops[1] = "scrape_google_news"
                /\ ~feed.raised
                /\ fetched # <<>>
                /\ Len(fetched) <= FetchLimit
                /\ k = Len(fetched) + 2
                /\ Len(passed) = Len(fetched)
                /\ \A i \in 1..Len(fetched) :
                    /\ Ops[i + 1] = "classify"
                    /\ calls[i + 1].articles = <<passed[i]>>
                    /\ IsLabelled(passed[i], fetched[i])
    /\ \A k \in 1..Len(calls) :
        Ops[k] = "get_groq_summary" =>
            /\ k > 1
            /\ Ops[k - 1] = "comparative_analysis"
            /\ report = comparative_analysis(calls[k - 1].articles).analysis
    /\ stage \in {"rejected", "idle", "no_articles"} =>
            \A k \in 1..Len(calls) : Ops[k] # "comparative_analysis"

\* the dashboard has summarized a feed of more items than the fetch keeps: ten
\* articles went through classification and analysis, some of them not Neutral
C17_Witness ==
    /\ stage = "summarized"
    /\ request.door = "app"
    /\ Len(feed.items) > FetchLimit
    /\ Len(news) = FetchLimit
    /\ Ops[Len(calls)] = "get_groq_summary"
    /\ \E i \in 1..Len(news) : news[i]["sentiment"] = Positive

====
